---- MODULE Spec2Model ----
(***************************************************************************)
(* The trie-based persistent Vector of scats (src/unnamed/part_005).       *)
(*                                                                         *)
(* Objects live in a heap, a sequence of records addressed by position:    *)
(* JavaScript arrays, Node objects (a reference to an array) and Vector    *)
(* objects (root, tail, depth, _size).  Every method is an operator from a *)
(* heap and its arguments to a record [h, err, val]: the heap after the    *)
(* call, the name of the exception it threw ("" when it returned) and the  *)
(* returned value (an address for objects).                                *)
(***************************************************************************)
EXTENDS Integers, Sequences, FiniteSets, TLC

\* ------------------------------------------------------------------ bounds
MaxOps == 2          \* number of API calls in one run
MaxLen == 2          \* the short input arrays have lengths 0..MaxLen

\* --------------------------------------------------------------- constants
BITS == 5
WIDTH == 2 ^ BITS
MASK == WIDTH - 1

\* An array hole or a read outside the array, and the null of mapNode.
Undefined == -1
Null == -2

\* ------------------------------------------------- JavaScript number helpers
\* n >> k and n >>> k for n >= 0: the shift count is taken modulo 32.
ShiftRight(n, k) == n \div (2 ^ (k % 32))
\* n & MASK for n >= 0.
AndMask(n) == n % (MASK + 1)

\* array[i] (0-based); a read outside the array gives undefined.
ArrGet(array, i) == IF i >= 0 /\ i < Len(array) THEN array[i + 1] ELSE Undefined
\* array[i] = x (0-based); a write past the end leaves holes before i.
ArrSet(array, i, x) ==
  IF i < Len(array) THEN [array EXCEPT ![i + 1] = x]
  ELSE array \o [k \in 1..(i - Len(array)) |-> Undefined] \o <<x>>

\* ------------------------------------------------------------ heap objects
ArrayObj(e) == [kind |-> "Array", elems |-> e]
NodeObj(a) == [kind |-> "Node", array |-> a]
VectorObj(root, tail, depth, sz) ==
  [kind |-> "Vector", root |-> root, tail |-> tail, depth |-> depth, size |-> sz]

Ret(h, val) == [h |-> h, err |-> "", val |-> val]
Throw(h, e) == [h |-> h, err |-> e, val |-> 0]

\* An array literal / spread copy: a fresh array object.
newArray(h, e) == Ret(Append(h, ArrayObj(e)), Len(h) + 1)
\* new Node(array) around an existing array object.
newNode(h, array) == Ret(Append(h, NodeObj(array)), Len(h) + 1)
\* new Node([...]) around a fresh array.
newNodeOf(h, e) == newNode(newArray(h, e).h, newArray(h, e).val)
\* new Vector(root, tail, depth, size)
newVector(h, root, tail, depth, sz) ==
  Ret(Append(h, VectorObj(root, tail, depth, sz)), Len(h) + 1)

\* node.array and this.tail as sequences of elements
arrayOf(h, node) == h[h[node].array].elems
tailOf(h, v) == h[h[v].tail].elems

\* ------------------------------------------------------------------ Vector
size(h, v) == h[v].size

isEmpty(h, v) == h[v].size = 0

RECURSIVE getElem(_, _, _, _)
getElem(h, node, index, level) ==
  IF node <= 0 THEN Throw(h, "TypeError")
  ELSE IF level = 0 THEN Ret(h, ArrGet(arrayOf(h, node), AndMask(index)))
  ELSE LET subIndex == AndMask(ShiftRight(index, level * BITS))
       IN getElem(h, ArrGet(arrayOf(h, node), subIndex), index, level - 1)

\* apply as it would be with the tail check index > tailOffset
applyTailOffByOne(h, v, index) ==
  IF index < 0 \/ index >= h[v].size THEN Throw(h, "Error")
  ELSE LET tailOffset == h[v].size - Len(tailOf(h, v))
       IN IF index > tailOffset
          THEN Ret(h, ArrGet(tailOf(h, v), index - tailOffset))
          ELSE getElem(h, h[v].root, index, h[v].depth)

\* apply as it would be with the bound check index > this._size
applyBoundOffByOne(h, v, index) ==
  IF index < 0 \/ index > h[v].size THEN Throw(h, "Error")
  ELSE LET tailOffset == h[v].size - Len(tailOf(h, v))
       IN IF index >= tailOffset
          THEN Ret(h, ArrGet(tailOf(h, v), index - tailOffset))
          ELSE getElem(h, h[v].root, index, h[v].depth)

apply(h, v, index) ==
  IF index < 0 \/ index >= h[v].size THEN Throw(h, "Error")
  ELSE LET tailOffset == h[v].size - Len(tailOf(h, v))
       IN IF index >= tailOffset
          THEN Ret(h, ArrGet(tailOf(h, v), index - tailOffset))
          ELSE getElem(h, h[v].root, index, h[v].depth)

\* the Option that get returns: None, Some(value)
None == [isSome |-> FALSE, value |-> 0]
Some(a) == [isSome |-> TRUE, value |-> a]

\* get as it would be with the bound check index > this._size
getBoundOffByOne(h, v, index) ==
  IF index < 0 \/ index > h[v].size THEN Ret(h, None)
  ELSE LET a == apply(h, v, index)
       IN IF a.err # "" THEN a ELSE Ret(h, Some(a.val))

get(h, v, index) ==
  IF index < 0 \/ index >= h[v].size THEN Ret(h, None)
  ELSE LET a == apply(h, v, index)
       IN IF a.err # "" THEN a ELSE Ret(h, Some(a.val))

RECURSIVE updateElem(_, _, _, _, _)
updateElem(h, node, index, elem, level) ==
  IF node <= 0 THEN Throw(h, "TypeError")
  ELSE IF level = 0
  THEN newNodeOf(h, ArrSet(arrayOf(h, node), AndMask(index), elem))
  ELSE LET subIndex == AndMask(ShiftRight(index, level * BITS))
           sub == updateElem(h, ArrGet(arrayOf(h, node), subIndex), index, elem, level - 1)
       IN IF sub.err # "" THEN sub
          ELSE newNodeOf(sub.h, ArrSet(arrayOf(h, node), subIndex, sub.val))

\* updated as it would be if the tail branch passed this.tail, not newTail
updatedStaleTail(h, v, index, elem) ==
  IF index < 0 \/ index >= h[v].size THEN Ret(h, v)
  ELSE LET tailOffset == h[v].size - Len(tailOf(h, v))
       IN IF index >= tailOffset
          THEN LET newTail == newArray(h, ArrSet(tailOf(h, v), index - tailOffset, elem))
               IN newVector(newTail.h, h[v].root, h[v].tail, h[v].depth, h[v].size)
          ELSE LET newRoot == updateElem(h, h[v].root, index, elem, h[v].depth)
               IN IF newRoot.err # "" THEN newRoot
                  ELSE newVector(newRoot.h, newRoot.val, h[v].tail, h[v].depth, h[v].size)

\* updated as it would be if the tail branch wrote into this.tail itself
\* (newTail = this.tail instead of [...this.tail])
updatedInPlace(h, v, index, elem) ==
  IF index < 0 \/ index >= h[v].size THEN Ret(h, v)
  ELSE LET tailOffset == h[v].size - Len(tailOf(h, v))
       IN IF index >= tailOffset
          THEN LET written == [h EXCEPT ![h[v].tail].elems =
                                 ArrSet(tailOf(h, v), index - tailOffset, elem)]
               IN newVector(written, h[v].root, h[v].tail, h[v].depth, h[v].size)
          ELSE LET newRoot == updateElem(h, h[v].root, index, elem, h[v].depth)
               IN IF newRoot.err # "" THEN newRoot
                  ELSE newVector(newRoot.h, newRoot.val, h[v].tail, h[v].depth, h[v].size)

\* updated as it would be if the tail branch copied the root as well
updatedFreshRoot(h, v, index, elem) ==
  IF index < 0 \/ index >= h[v].size THEN Ret(h, v)
  ELSE LET tailOffset == h[v].size - Len(tailOf(h, v))
       IN IF index >= tailOffset
          THEN LET root == newNodeOf(h, arrayOf(h, h[v].root))
                   newTail == newArray(root.h, ArrSet(tailOf(h, v), index - tailOffset, elem))
               IN newVector(newTail.h, root.val, newTail.val, h[v].depth, h[v].size)
          ELSE LET newRoot == updateElem(h, h[v].root, index, elem, h[v].depth)
               IN IF newRoot.err # "" THEN newRoot
                  ELSE newVector(newRoot.h, newRoot.val, h[v].tail, h[v].depth, h[v].size)

\* updated as it would be if the tail branch passed this._size + 1
updatedGrowsSize(h, v, index, elem) ==
  IF index < 0 \/ index >= h[v].size THEN Ret(h, v)
  ELSE LET tailOffset == h[v].size - Len(tailOf(h, v))
       IN IF index >= tailOffset
          THEN LET newTail == newArray(h, ArrSet(tailOf(h, v), index - tailOffset, elem))
               IN newVector(newTail.h, h[v].root, newTail.val, h[v].depth, h[v].size + 1)
          ELSE LET newRoot == updateElem(h, h[v].root, index, elem, h[v].depth)
               IN IF newRoot.err # "" THEN newRoot
                  ELSE newVector(newRoot.h, newRoot.val, h[v].tail, h[v].depth, h[v].size)

\* updated as it would be with the bound check index > this._size
updatedBoundOffByOne(h, v, index, elem) ==
  IF index < 0 \/ index > h[v].size THEN Ret(h, v)
  ELSE LET tailOffset == h[v].size - Len(tailOf(h, v))
       IN IF index >= tailOffset
          THEN LET newTail == newArray(h, ArrSet(tailOf(h, v), index - tailOffset, elem))
               IN newVector(newTail.h, h[v].root, newTail.val, h[v].depth, h[v].size)
          ELSE LET newRoot == updateElem(h, h[v].root, index, elem, h[v].depth)
               IN IF newRoot.err # "" THEN newRoot
                  ELSE newVector(newRoot.h, newRoot.val, h[v].tail, h[v].depth, h[v].size)

updated(h, v, index, elem) ==
  IF index < 0 \/ index >= h[v].size THEN Ret(h, v)
  ELSE LET tailOffset == h[v].size - Len(tailOf(h, v))
       IN IF index >= tailOffset
          THEN LET newTail == newArray(h, ArrSet(tailOf(h, v), index - tailOffset, elem))
               IN newVector(newTail.h, h[v].root, newTail.val, h[v].depth, h[v].size)
          ELSE LET newRoot == updateElem(h, h[v].root, index, elem, h[v].depth)
               IN IF newRoot.err # "" THEN newRoot
                  ELSE newVector(newRoot.h, newRoot.val, h[v].tail, h[v].depth, h[v].size)

\* The recursion stops only at level = 1 and every call passes level - 1.
\* Entered with level < 1 it never returns: where node has a child at
\* subIndex that child is a stored value, and spreading its missing array
\* throws a TypeError; otherwise the child is a fresh empty Node, so is every
\* child after it, and the call stack overflows (a RangeError).
RECURSIVE pushTail(_, _, _, _, _)
pushTail(h, node, index, tailNode, level) ==
  IF node <= 0 THEN Throw(h, "TypeError")
  ELSE LET subIndex == AndMask(ShiftRight(index, level * BITS))
           array == arrayOf(h, node)
       IN IF level = 1
          THEN newNodeOf(h, ArrSet(array, subIndex, tailNode))
          ELSE IF level < 1
          THEN IF subIndex < Len(array) THEN Throw(h, "TypeError")
               ELSE Throw(h, "RangeError")
          ELSE LET child == IF subIndex < Len(array)
                            THEN Ret(h, array[subIndex + 1])
                            ELSE newNodeOf(h, <<>>)
                   sub == pushTail(child.h, child.val, index, tailNode, level - 1)
               IN IF sub.err # "" THEN sub
                  ELSE newNodeOf(sub.h, ArrSet(array, subIndex, sub.val))

\* The flush of a full tail: whether appended wraps the root in a new Node,
\* (tailIndex >>> (BITS * this.depth)) > 0, and the newDepth it hands to
\* pushTail as level.
flushGrows(h, v) == ShiftRight(h[v].size - WIDTH, BITS * h[v].depth) > 0
flushDepth(h, v) == IF flushGrows(h, v) THEN h[v].depth + 1 ELSE h[v].depth

\* appended as it would be if the tail branch built a root of its own
appendedFreshRoot(h, v, elem) ==
  IF Len(tailOf(h, v)) < WIDTH
  THEN LET root == newNodeOf(h, arrayOf(h, h[v].root))
           newTail == newArray(root.h, Append(tailOf(h, v), elem))
       IN newVector(newTail.h, root.val, newTail.val, h[v].depth, h[v].size + 1)
  ELSE LET tailIndex == h[v].size - WIDTH
           grow == flushGrows(h, v)
           wrapped == IF grow THEN newNodeOf(h, <<h[v].root>>) ELSE Ret(h, h[v].root)
           newDepth == flushDepth(h, v)
           tailNode == newNode(wrapped.h, h[v].tail)
           newRoot == pushTail(tailNode.h, wrapped.val, tailIndex, tailNode.val, newDepth)
       IN IF newRoot.err # "" THEN newRoot
          ELSE LET newTail == newArray(newRoot.h, <<elem>>)
               IN newVector(newTail.h, newRoot.val, newTail.val, newDepth, h[v].size + 1)

\* appended as it would be with the tail check this.tail.length <= WIDTH
appendedTailLe(h, v, elem) ==
  IF Len(tailOf(h, v)) <= WIDTH
  THEN LET newTail == newArray(h, Append(tailOf(h, v), elem))
       IN newVector(newTail.h, h[v].root, newTail.val, h[v].depth, h[v].size + 1)
  ELSE LET tailIndex == h[v].size - WIDTH
           grow == flushGrows(h, v)
           wrapped == IF grow THEN newNodeOf(h, <<h[v].root>>) ELSE Ret(h, h[v].root)
           newDepth == flushDepth(h, v)
           tailNode == newNode(wrapped.h, h[v].tail)
           newRoot == pushTail(tailNode.h, wrapped.val, tailIndex, tailNode.val, newDepth)
       IN IF newRoot.err # "" THEN newRoot
          ELSE LET newTail == newArray(newRoot.h, <<elem>>)
               IN newVector(newTail.h, newRoot.val, newTail.val, newDepth, h[v].size + 1)

appended(h, v, elem) ==
  IF Len(tailOf(h, v)) < WIDTH
  THEN LET newTail == newArray(h, Append(tailOf(h, v), elem))
       IN newVector(newTail.h, h[v].root, newTail.val, h[v].depth, h[v].size + 1)
  ELSE LET tailIndex == h[v].size - WIDTH
           grow == flushGrows(h, v)
           wrapped == IF grow THEN newNodeOf(h, <<h[v].root>>) ELSE Ret(h, h[v].root)
           newDepth == flushDepth(h, v)
           tailNode == newNode(wrapped.h, h[v].tail)
           newRoot == pushTail(tailNode.h, wrapped.val, tailIndex, tailNode.val, newDepth)
       IN IF newRoot.err # "" THEN newRoot
          ELSE LET newTail == newArray(newRoot.h, <<elem>>)
               IN newVector(newTail.h, newRoot.val, newTail.val, newDepth, h[v].size + 1)

\* empty as it would be with a preallocated root, new Node(new Array(WIDTH))
emptyPreallocatedRoot(h) ==
  LET root == newNodeOf(h, [k \in 1..WIDTH |-> Undefined])
      tail == newArray(root.h, <<>>)
  IN newVector(tail.h, root.val, tail.val, 0, 0)

empty(h) ==
  LET root == newNodeOf(h, <<>>)
      tail == newArray(root.h, <<>>)
  IN newVector(tail.h, root.val, tail.val, 0, 0)

\* for (const elem of elements) vector = vector.appended(elem), from element i
RECURSIVE ofLoop(_, _, _, _)
ofLoop(h, elements, vector, i) ==
  IF i > Len(elements) THEN Ret(h, vector)
  ELSE LET r == appended(h, vector, elements[i])
       IN IF r.err # "" THEN r ELSE ofLoop(r.h, elements, r.val, i + 1)

\* elements is the rest-parameter array, created by the call
of(h, elements) ==
  IF Len(elements) = 0 THEN empty(h)
  ELSE IF Len(elements) <= WIDTH
  THEN LET root == newNodeOf(h, <<>>)
           tail == newArray(root.h, elements)
       IN newVector(tail.h, root.val, tail.val, 0, Len(elements))
  ELSE LET e == empty(h) IN ofLoop(e.h, elements, e.val, 1)

\* from as it would be if it handed the caller's array to the constructor
fromNoCopy(h, array) ==
  IF Len(h[array].elems) > WIDTH THEN of(h, h[array].elems)
  ELSE LET root == newNodeOf(h, <<>>)
       IN newVector(root.h, root.val, array, 0, Len(h[array].elems))

\* array is the address of the caller's array; of(...array) spreads it
from(h, array) == of(h, h[array].elems)

\* for (i = 0; i < that.size(); i++) result = result.appended(that.apply(i))
RECURSIVE appendAllLoop(_, _, _, _)
appendAllLoop(h, that, result, i) ==
  IF ~(i < size(h, that)) THEN Ret(h, result)
  ELSE LET a == apply(h, that, i)
       IN IF a.err # "" THEN a
          ELSE LET r == appended(h, result, a.val)
               IN IF r.err # "" THEN r ELSE appendAllLoop(r.h, that, r.val, i + 1)

\* appendAll as it would be without the shortcut for an empty receiver
appendAllRebuilds(h, v, that) ==
  IF isEmpty(h, that) THEN Ret(h, v)
  ELSE appendAllLoop(h, that, v, 0)

appendAll(h, v, that) ==
  IF isEmpty(h, that) THEN Ret(h, v)
  ELSE IF isEmpty(h, v) THEN Ret(h, that)
  ELSE appendAllLoop(h, that, v, 0)

RECURSIVE removeFirst(_, _, _)
removeFirst(h, node, level) ==
  IF node <= 0 THEN Throw(h, "TypeError")
  ELSE IF level = 0
  THEN newNodeOf(h, IF Len(arrayOf(h, node)) = 0 THEN <<>> ELSE Tail(arrayOf(h, node)))
  ELSE LET sub == removeFirst(h, ArrGet(arrayOf(h, node), 0), level - 1)
       IN IF sub.err # "" THEN sub
          ELSE newNodeOf(sub.h, ArrSet(arrayOf(h, node), 0, sub.val))

\* prepended as it would be if the tail-only branch passed this._size
prependedSameSize(h, v, elem) ==
  IF isEmpty(h, v) THEN of(h, <<elem>>)
  ELSE IF Len(tailOf(h, v)) = WIDTH
  THEN LET one == of(h, <<elem>>) IN appendAll(one.h, one.val, v)
  ELSE LET tailOffset == h[v].size - Len(tailOf(h, v))
       IN IF tailOffset = 0
          THEN LET newTail == newArray(h, <<elem>> \o tailOf(h, v))
               IN newVector(newTail.h, h[v].root, newTail.val, h[v].depth, h[v].size)
          ELSE LET first == apply(h, v, 0)
                   newRoot == removeFirst(h, h[v].root, h[v].depth)
               IN IF first.err # "" THEN first
                  ELSE IF newRoot.err # "" THEN newRoot
                  ELSE LET newTail == newArray(newRoot.h, <<elem>> \o tailOf(h, v))
                       IN newVector(newTail.h, newRoot.val, newTail.val,
                                    h[v].depth, h[v].size + 1)

prepended(h, v, elem) ==
  IF isEmpty(h, v) THEN of(h, <<elem>>)
  ELSE IF Len(tailOf(h, v)) = WIDTH
  THEN LET one == of(h, <<elem>>) IN appendAll(one.h, one.val, v)
  ELSE LET tailOffset == h[v].size - Len(tailOf(h, v))
       IN IF tailOffset = 0
          THEN LET newTail == newArray(h, <<elem>> \o tailOf(h, v))
               IN newVector(newTail.h, h[v].root, newTail.val, h[v].depth, h[v].size + 1)
          ELSE LET first == apply(h, v, 0)
                   newRoot == removeFirst(h, h[v].root, h[v].depth)
               IN IF first.err # "" THEN first
                  ELSE IF newRoot.err # "" THEN newRoot
                  ELSE LET newTail == newArray(newRoot.h, <<elem>> \o tailOf(h, v))
                       IN newVector(newTail.h, newRoot.val, newTail.val,
                                    h[v].depth, h[v].size + 1)

\* ------------------------------------------------- the argument functions
\* f of map, p of filter and f of flatMap, by name; none of them throws.
MapFns == {"double", "const"}
ApplyF(f, a) == IF f = "double" THEN a * 2 ELSE 0

Preds == {"even", "odd", "none"}
ApplyP(p, a) == IF p = "even" THEN a % 2 = 0
                ELSE IF p = "odd" THEN a % 2 = 1
                ELSE FALSE

\* x => Vector.of(x, x * 10), x => Vector.of(x), x => Vector.empty()
FlatFns == {"pair", "single", "nil"}
FlatSeq(g, a) == IF g = "pair" THEN <<a, a * 10>>
                 ELSE IF g = "single" THEN <<a>>
                 ELSE <<>>
ApplyG(h, g, a) == IF g = "nil" THEN empty(h) ELSE of(h, FlatSeq(g, a))

\* Array.prototype.map of a value array: holes stay holes.
MapValues(array, f) ==
  [k \in 1..Len(array) |-> IF array[k] = Undefined THEN Undefined ELSE ApplyF(f, array[k])]

RECURSIVE mapNode(_, _, _, _)
RECURSIVE mapChildren(_, _, _, _, _)

\* node.array.map(child => child ? this.mapNode(child, f, level - 1) : null),
\* from child i, acc the mapped children so far
mapChildren(h, array, f, level, acc) ==
  IF Len(acc) = Len(array) THEN Ret(h, acc)
  ELSE LET child == array[Len(acc) + 1]
       IN IF child = Undefined THEN mapChildren(h, array, f, level, Append(acc, Undefined))
          ELSE IF child <= 0 THEN mapChildren(h, array, f, level, Append(acc, Null))
          ELSE LET sub == mapNode(h, child, f, level - 1)
               IN IF sub.err # "" THEN sub
                  ELSE mapChildren(sub.h, array, f, level, Append(acc, sub.val))

mapNode(h, node, f, level) ==
  IF node <= 0 THEN Throw(h, "TypeError")
  ELSE IF level = 0 THEN newNodeOf(h, MapValues(arrayOf(h, node), f))
  ELSE LET children == mapChildren(h, arrayOf(h, node), f, level, <<>>)
       IN IF children.err # "" THEN children
          ELSE newNodeOf(children.h, children.val)

\* map as it would be if the tail-only branch kept this.tail
mapUnmappedTail(h, v, f) ==
  LET newTail == newArray(h, MapValues(tailOf(h, v), f))
  IN IF h[v].size = Len(tailOf(h, v))
     THEN LET root == newNodeOf(newTail.h, <<>>)
          IN newVector(root.h, root.val, h[v].tail, 0, h[v].size)
     ELSE LET newRoot == mapNode(newTail.h, h[v].root, f, h[v].depth)
          IN IF newRoot.err # "" THEN newRoot
             ELSE newVector(newRoot.h, newRoot.val, newTail.val, h[v].depth, h[v].size)

map(h, v, f) ==
  LET newTail == newArray(h, MapValues(tailOf(h, v), f))
  IN IF h[v].size = Len(tailOf(h, v))
     THEN LET root == newNodeOf(newTail.h, <<>>)
          IN newVector(root.h, root.val, newTail.val, 0, h[v].size)
     ELSE LET newRoot == mapNode(newTail.h, h[v].root, f, h[v].depth)
          IN IF newRoot.err # "" THEN newRoot
             ELSE newVector(newRoot.h, newRoot.val, newTail.val, h[v].depth, h[v].size)

\* for (i = 0; i < this._size; i++) result = result.appendAll(f(this.apply(i)))
RECURSIVE flatMapLoop(_, _, _, _, _)
flatMapLoop(h, v, g, result, i) ==
  IF ~(i < h[v].size) THEN Ret(h, result)
  ELSE LET a == apply(h, v, i)
       IN IF a.err # "" THEN a
          ELSE LET fa == ApplyG(h, g, a.val)
               IN IF fa.err # "" THEN fa
                  ELSE LET r == appendAll(fa.h, result, fa.val)
                       IN IF r.err # "" THEN r
                          ELSE flatMapLoop(r.h, v, g, r.val, i + 1)

flatMap(h, v, g) ==
  IF isEmpty(h, v) THEN empty(h)
  ELSE LET e == empty(h) IN flatMapLoop(e.h, v, g, e.val, 0)

\* for (i = 0; i < this._size; i++) if (p(elem)) result = result.appended(elem)
RECURSIVE filterLoop(_, _, _, _, _)
filterLoop(h, v, p, result, i) ==
  IF ~(i < h[v].size) THEN Ret(h, result)
  ELSE LET a == apply(h, v, i)
       IN IF a.err # "" THEN a
          ELSE IF ApplyP(p, a.val)
          THEN LET r == appended(h, result, a.val)
               IN IF r.err # "" THEN r ELSE filterLoop(r.h, v, p, r.val, i + 1)
          ELSE filterLoop(h, v, p, result, i + 1)

\* filter as it would be if its loop started at i = 1
filterFromOne(h, v, p) ==
  IF isEmpty(h, v) THEN Ret(h, v)
  ELSE LET e == empty(h) IN filterLoop(e.h, v, p, e.val, 1)

filter(h, v, p) ==
  IF isEmpty(h, v) THEN Ret(h, v)
  ELSE LET e == empty(h) IN filterLoop(e.h, v, p, e.val, 0)

\* for (i = 0; i < this._size; i++) result.push(this.apply(i)); val is the
\* sequence of elements of the fresh result array
RECURSIVE toArrayLoop(_, _, _, _)
toArrayLoop(h, v, result, i) ==
  IF ~(i < h[v].size) THEN Ret(h, result)
  ELSE LET a == apply(h, v, i)
       IN IF a.err # "" THEN [h |-> h, err |-> a.err, val |-> result]
          ELSE toArrayLoop(h, v, Append(result, a.val), i + 1)

toArray(h, v) == toArrayLoop(h, v, <<>>, 0)

\* const result: A[] = [] is an array object of its own, which toArray returns
toArrayResult(h, v) ==
  LET r == toArray(h, v)
  IN IF r.err # "" THEN Throw(h, r.err) ELSE newArray(h, r.val)

\* ------------------------------------------------------------ the program
\* A client that calls the public API: heap holds every object allocated so
\* far, vecs the Vectors the calls have returned, last the latest call with
\* its arguments, what its receiver held before it and how it ended.
VARIABLES heap, vecs, last, nops

vars == <<heap, vecs, last, nops>>

\* the values a client passes as elements
Values == {0, 9}

\* [1, 2, ..., n]
Iota(n) == [k \in 1..n |-> k]

\* the arrays a client passes to of and from: short ones and the lengths
\* around the tail boundary
InputLens == (0..MaxLen) \cup {WIDTH - 1, WIDTH, WIDTH + 1}
Inputs == {Iota(n) : n \in InputLens}

\* what toArray of a Vector returns, and 0 for no Vector
Elems(h, v) == IF v = 0 THEN <<>> ELSE toArray(h, v).val

NoCall ==
  [op |-> "", recv |-> 0, that |-> 0, index |-> 0, elem |-> 0, fn |-> "",
   input |-> <<>>, pre |-> <<>>, preThat |-> <<>>, err |-> "", val |-> 0]

\* the methods that return something other than a Vector
Observers == {"size", "isEmpty", "apply", "get", "toArray"}

\* the indices a client reads at: both sides of both ends, and the middle
ReadIndexes(n) == {-1, 0, n \div 2, n - 1, n}

\* The call described by c ended as r.
Call(c, r) ==
  /\ nops < MaxOps
  /\ nops' = nops + 1
  /\ heap' = r.h
  /\ vecs' = IF r.err = "" /\ c.op \notin Observers THEN Append(vecs, r.val) ELSE vecs
  /\ last' = [c EXCEPT !.pre = Elems(heap, c.recv), !.preThat = Elems(heap, c.that),
                       !.err = r.err, !.val = r.val]

Init ==
  /\ heap = <<>>
  /\ vecs = <<>>
  /\ last = NoCall
  /\ nops = 0

DoEmpty == Call([NoCall EXCEPT !.op = "empty"], empty(heap))

DoOf == \E a \in Inputs :
  Call([NoCall EXCEPT !.op = "of", !.input = a], of(heap, a))

\* the caller's array is an object of its own
DoFrom == \E a \in Inputs :
  LET arr == newArray(heap, a)
  IN Call([NoCall EXCEPT !.op = "from", !.input = a, !.index = arr.val],
          from(arr.h, arr.val))

DoUpdated == \E i \in 1..Len(vecs) : \E index \in -1..size(heap, vecs[i]) : \E x \in Values :
  Call([NoCall EXCEPT !.op = "updated", !.recv = vecs[i], !.index = index, !.elem = x],
       updated(heap, vecs[i], index, x))

DoAppended == \E i \in 1..Len(vecs) : \E x \in Values :
  Call([NoCall EXCEPT !.op = "appended", !.recv = vecs[i], !.elem = x],
       appended(heap, vecs[i], x))

DoPrepended == \E i \in 1..Len(vecs) : \E x \in Values :
  Call([NoCall EXCEPT !.op = "prepended", !.recv = vecs[i], !.elem = x],
       prepended(heap, vecs[i], x))

DoAppendAll == \E i \in 1..Len(vecs) : \E j \in 1..Len(vecs) :
  Call([NoCall EXCEPT !.op = "appendAll", !.recv = vecs[i], !.that = vecs[j]],
       appendAll(heap, vecs[i], vecs[j]))

DoMap == \E i \in 1..Len(vecs) : \E f \in MapFns :
  Call([NoCall EXCEPT !.op = "map", !.recv = vecs[i], !.fn = f],
       map(heap, vecs[i], f))

DoFilter == \E i \in 1..Len(vecs) : \E p \in Preds :
  Call([NoCall EXCEPT !.op = "filter", !.recv = vecs[i], !.fn = p],
       filter(heap, vecs[i], p))

DoFlatMap == \E i \in 1..Len(vecs) : \E g \in FlatFns :
  Call([NoCall EXCEPT !.op = "flatMap", !.recv = vecs[i], !.fn = g],
       flatMap(heap, vecs[i], g))

DoSize == \E i \in 1..Len(vecs) :
  Call([NoCall EXCEPT !.op = "size", !.recv = vecs[i]],
       Ret(heap, size(heap, vecs[i])))

DoIsEmpty == \E i \in 1..Len(vecs) :
  Call([NoCall EXCEPT !.op = "isEmpty", !.recv = vecs[i]],
       Ret(heap, isEmpty(heap, vecs[i])))

DoApply == \E i \in 1..Len(vecs) : \E index \in ReadIndexes(size(heap, vecs[i])) :
  Call([NoCall EXCEPT !.op = "apply", !.recv = vecs[i], !.index = index],
       apply(heap, vecs[i], index))

DoGet == \E i \in 1..Len(vecs) : \E index \in ReadIndexes(size(heap, vecs[i])) :
  Call([NoCall EXCEPT !.op = "get", !.recv = vecs[i], !.index = index],
       get(heap, vecs[i], index))

DoToArray == \E i \in 1..Len(vecs) :
  Call([NoCall EXCEPT !.op = "toArray", !.recv = vecs[i]],
       toArrayResult(heap, vecs[i]))

Next ==
  \/ DoEmpty
  \/ DoOf
  \/ DoFrom
  \/ DoUpdated
  \/ DoAppended
  \/ DoPrepended
  \/ DoAppendAll
  \/ DoMap
  \/ DoFilter
  \/ DoFlatMap
  \/ DoSize
  \/ DoIsEmpty
  \/ DoApply
  \/ DoGet
  \/ DoToArray

Spec == Init /\ [][Next]_vars

\* A client that holds two Vectors, built by two calls of Vector.of, and
\* calls appendAll on them and on what appendAll returns.
InitPair == \E a \in Inputs : \E b \in Inputs :
  LET r1 == of(<<>>, a)
      r2 == of(r1.h, b)
  IN /\ heap = r2.h
     /\ vecs = (IF r1.err = "" THEN <<r1.val>> ELSE <<>>) \o
               (IF r2.err = "" THEN <<r2.val>> ELSE <<>>)
     /\ last = NoCall
     /\ nops = 0

NextPair == DoAppendAll

SpecPair == InitPair /\ [][NextPair]_vars

\* The array a caller can reach after the latest call: the one it passed to
\* Vector.from, or the one toArray returned.
CallerArray(c) == IF c.op = "from" THEN c.index ELSE c.val

\* The caller writes an element of that array: array[k] = x.
DoMutateArray ==
  /\ last.op \in {"from", "toArray"}
  /\ last.err = ""
  /\ LET array == CallerArray(last)
     IN /\ Len(heap[array].elems) > 0
        /\ \E k \in {1, Len(heap[array].elems)} : \E x \in Values :
             /\ heap' = [heap EXCEPT ![array].elems[k] = x]
             /\ last' = [last EXCEPT !.op = "mutate", !.index = array]
  /\ UNCHANGED <<vecs, nops>>

NextAlias == Next \/ DoMutateArray

SpecAlias == Init /\ [][NextAlias]_vars

\* ------------------------------------------------------------------ typing
TypeOK ==
  /\ nops \in 0..MaxOps
  /\ \A i \in 1..Len(vecs) : heap[vecs[i]].kind = "Vector"
  /\ last.err \in {"", "Error", "TypeError", "RangeError"}

\* ------------------------------------------------------------------ claims
\* the element apply returns, for an index the caller knows is in range
At(h, v, i) == apply(h, v, i).val

\* the latest call returned (did not throw)
Returned == last.err = ""

\* C1: appended returns a Vector of size v.size() + 1 whose element at index
\* v.size() is the appended value, for a receiver of any size.
C1_AppendLaw ==
  last.op = "appended" =>
    /\ Returned
    /\ size(heap, last.val) = Len(last.pre) + 1
    /\ At(heap, last.val, Len(last.pre)) = last.elem

\* C2: appended on a Vector whose tail holds WIDTH elements returns a Vector
\* with tail [x], size + 1, and every old index reading its old value.
C2_FullTailFlush ==
  (last.op = "appended" /\ Len(tailOf(heap, last.recv)) = WIDTH) =>
    /\ Returned
    /\ tailOf(heap, last.val) = <<last.elem>>
    /\ size(heap, last.val) = Len(last.pre) + 1
    /\ \A i \in 0..(Len(last.pre) - 1) : At(heap, last.val, i) = last.pre[i + 1]

\* C3: Vector.from(arr).toArray() equals arr and its size is arr.length.
C3_RoundTrip ==
  last.op = "from" =>
    /\ Returned
    /\ size(heap, last.val) = Len(last.input)
    /\ toArray(heap, last.val).err = ""
    /\ toArray(heap, last.val).val = last.input

\* C4: updated at an in-range index i stores the value at i and leaves every
\* other in-range index as it was.
C4_UpdateConsistency ==
  (last.op = "updated" /\ last.index >= 0 /\ last.index < Len(last.pre)) =>
    /\ Returned
    /\ At(heap, last.val, last.index) = last.elem
    /\ \A j \in 0..(Len(last.pre) - 1) :
         j # last.index => At(heap, last.val, j) = last.pre[j + 1]

C4_Witness ==
  /\ last.op = "updated"
  /\ Returned
  /\ Len(last.pre) = WIDTH
  /\ last.index \in 1..(WIDTH - 2)
  /\ last.pre[last.index + 1] # last.elem
  /\ At(heap, last.val, last.index) = last.elem

\* C5: no call changes an object that exists: every array, Node and Vector
\* of the heap is after the step what it was before it, and so are size()
\* and toArray() of every Vector returned so far.
C5_NonMutation ==
  [][/\ \A a \in 1..Len(heap) : Len(heap') >= a /\ heap'[a] = heap[a]
     /\ \A i \in 1..Len(vecs) :
          /\ size(heap', vecs[i]) = size(heap, vecs[i])
          /\ toArray(heap', vecs[i]) .val = toArray(heap, vecs[i]).val]_vars

C5_Witness ==
  /\ last.op \in {"updated", "appended", "prepended", "appendAll", "map", "filter", "flatMap"}
  /\ Returned
  /\ last.val # last.recv
  /\ Len(last.pre) > 0
  /\ toArray(heap, last.val).val # last.pre
  /\ toArray(heap, last.recv).val = last.pre

\* C6: v.prepended(x).toArray() is [x, ...v.toArray()], for a receiver that
\* is empty, has a partly filled tail or a tail of exactly WIDTH.
C6_PrependLaw ==
  last.op = "prepended" =>
    /\ Returned
    /\ size(heap, last.val) = Len(last.pre) + 1
    /\ toArray(heap, last.val).val = <<last.elem>> \o last.pre

\* C7: v.map(f) has the size of v and holds f(v.apply(i)) at every index i.
C7_MapLaw ==
  last.op = "map" =>
    /\ Returned
    /\ size(heap, last.val) = Len(last.pre)
    /\ \A i \in 0..(Len(last.pre) - 1) :
         At(heap, last.val, i) = ApplyF(last.fn, last.pre[i + 1])

C7_Witness ==
  /\ last.op = "map"
  /\ Returned
  /\ last.fn = "double"
  /\ Len(last.pre) = WIDTH
  /\ At(heap, last.val, WIDTH - 1) = 2 * WIDTH

\* C8: a.appendAll(b).toArray() is a.toArray() followed by b.toArray().
C8_AppendAllConcat ==
  last.op = "appendAll" =>
    /\ Returned
    /\ size(heap, last.val) = Len(last.pre) + Len(last.preThat)
    /\ toArray(heap, last.val).val = last.pre \o last.preThat

\* the elements of s that satisfy p, in order
RECURSIVE SelectP(_, _)
SelectP(s, p) ==
  IF s = <<>> THEN <<>>
  ELSE (IF ApplyP(p, Head(s)) THEN <<Head(s)>> ELSE <<>>) \o SelectP(Tail(s), p)

\* C9: v.filter(p).toArray() is the subsequence of v.toArray() of the
\* elements that satisfy p, in their order.
C9_FilterLaw ==
  last.op = "filter" =>
    /\ Returned
    /\ toArray(heap, last.val).val = SelectP(last.pre, last.fn)

C9_Witness ==
  /\ last.op = "filter"
  /\ Returned
  /\ last.fn = "even"
  /\ Len(last.pre) = WIDTH
  /\ Len(toArray(heap, last.val).val) = WIDTH \div 2

\* f(s[1]) \o f(s[2]) \o ...
RECURSIVE ConcatG(_, _)
ConcatG(s, g) ==
  IF s = <<>> THEN <<>> ELSE FlatSeq(g, Head(s)) \o ConcatG(Tail(s), g)

\* C10: v.flatMap(f).toArray() is the concatenation, in index order, of the
\* f(v.apply(i)).toArray().
C10_FlatMapLaw ==
  last.op = "flatMap" =>
    /\ Returned
    /\ toArray(heap, last.val).val = ConcatG(last.pre, last.fn)

\* the index of the latest call lies in [0, size) of its receiver
InRange == last.index >= 0 /\ last.index < Len(last.pre)

C12_ApplyRange ==
  last.op = "apply" =>
    /\ ~InRange => last.err = "Error"
    /\ InRange => (Returned /\ last.val = last.pre[last.index + 1])

C12_Witness ==
  /\ last.op = "apply"
  /\ last.index = Len(last.pre)
  /\ Len(last.pre) > 0
  /\ last.err = "Error"

\* C13: updated with an index outside [0, size) throws nothing and returns
\* the receiver itself, with the size and the elements it had.
C13_UpdatedOutOfRange ==
  (last.op = "updated" /\ ~InRange) =>
    /\ Returned
    /\ last.val = last.recv
    /\ size(heap, last.val) = Len(last.pre)
    /\ toArray(heap, last.val).val = last.pre

C13_Witness ==
  /\ last.op = "updated"
  /\ last.index = Len(last.pre)
  /\ Len(last.pre) > 0
  /\ Returned
  /\ toArray(heap, last.val).val = last.pre

\* C14: the only error of the API is the out-of-range error of apply: no
\* other method ends in an error, and apply ends in no other error.
C14_OnlyApplyThrows ==
  /\ last.op # "apply" => last.err = ""
  /\ last.op = "apply" => last.err \in {"", "Error"}

\* C15: every call comes back with a result, the one exception being apply
\* with an index outside [0, size); appended comes back when the tail is
\* full.
C15_Totality ==
  /\ (last.op = "appended" /\ Len(last.pre) = WIDTH) => Returned
  /\ (last.op # "" /\ ~(last.op = "apply" /\ ~InRange)) => Returned

\* ------------------------------------------------- the shape of a Vector
\* x is the address of a Node of heap h
IsNode(h, x) == x >= 1 /\ x <= Len(h) /\ h[x].kind = "Node"

\* the number of values stored below node, a Node of the given level
RECURSIVE TrieCount(_, _, _)
RECURSIVE SumCounts(_, _, _, _)
SumCounts(h, array, level, k) ==
  IF k > Len(array) THEN 0
  ELSE (IF IsNode(h, array[k]) THEN TrieCount(h, array[k], level - 1) ELSE 0)
       + SumCounts(h, array, level, k + 1)

TrieCount(h, node, level) ==
  IF level = 0
  THEN Cardinality({k \in 1..Len(arrayOf(h, node)) : arrayOf(h, node)[k] # Undefined})
  ELSE SumCounts(h, arrayOf(h, node), level, 1)

\* every leaf-level Node below node holds exactly WIDTH values
RECURSIVE LeavesFull(_, _, _)
LeavesFull(h, node, level) ==
  IF level = 0 THEN TrieCount(h, node, 0) = WIDTH /\ Len(arrayOf(h, node)) = WIDTH
  ELSE \A k \in 1..Len(arrayOf(h, node)) :
         IsNode(h, arrayOf(h, node)[k]) => LeavesFull(h, arrayOf(h, node)[k], level - 1)

\* node and every Node below it has at most WIDTH children, none of them
\* missing or null, all of them Nodes above level 0
RECURSIVE NodeShape(_, _, _)
NodeShape(h, node, level) ==
  /\ Len(arrayOf(h, node)) <= WIDTH
  /\ \A k \in 1..Len(arrayOf(h, node)) :
       /\ arrayOf(h, node)[k] \notin {Undefined, Null}
       /\ level > 0 => /\ IsNode(h, arrayOf(h, node)[k])
                       /\ NodeShape(h, arrayOf(h, node)[k], level - 1)

\* the descent of getElem for index finds a child at every level
RECURSIVE PathExists(_, _, _, _)
PathExists(h, node, index, level) ==
  LET subIndex == AndMask(ShiftRight(index, level * BITS))
  IN /\ IsNode(h, node)
     /\ subIndex < Len(arrayOf(h, node))
     /\ arrayOf(h, node)[subIndex + 1] \notin {Undefined, Null}
     /\ level > 0 => PathExists(h, arrayOf(h, node)[subIndex + 1], index, level - 1)

\* the Vectors the API has returned
Returns == {vecs[i] : i \in 1..Len(vecs)}

\* C16: the tail of every Vector the API returns has at most WIDTH elements.
C16_TailLength ==
  \A v \in Returns : Len(tailOf(heap, v)) >= 0 /\ Len(tailOf(heap, v)) <= WIDTH

C16_Witness ==
  /\ last.op \in {"appended", "prepended"}
  /\ Returned
  /\ Len(last.pre) = WIDTH - 1
  /\ Len(tailOf(heap, last.val)) = WIDTH

C20_IndexResolution ==
  \A v \in Returns : \A i \in 0..(heap[v].size - 1) :
    LET tailOffset == heap[v].size - Len(tailOf(heap, v))
        r == apply(heap, v, i)
    IN /\ r.err = ""
       /\ r.val # Undefined
       /\ i >= tailOffset =>
            /\ i - tailOffset < Len(tailOf(heap, v))
            /\ r.val = tailOf(heap, v)[i - tailOffset + 1]
       /\ i < tailOffset => PathExists(heap, heap[v].root, i, heap[v].depth)

C20_Witness ==
  /\ last.op = "apply"
  /\ InRange
  /\ Returned
  /\ Len(last.pre) = WIDTH
  /\ last.index = WIDTH - 1
  /\ last.val = last.pre[WIDTH]

\* v is a tail-only Vector holding the elements e: empty root, depth 0
TailOnly(h, v, e) ==
  /\ IsNode(h, h[v].root)
  /\ arrayOf(h, h[v].root) = <<>>
  /\ h[v].depth = 0
  /\ tailOf(h, v) = e
  /\ h[v].size = Len(e)

\* C21: empty() is the tail-only Vector of no elements; of and from with at
\* most WIDTH elements give the tail-only Vector of these elements; with
\* more elements they build, by repeated appended, a Vector that holds them
\* and satisfies the invariants of the data model.
C21_Construction ==
  /\ last.op = "empty" => Returned /\ TailOnly(heap, last.val, <<>>)
  /\ (last.op \in {"of", "from"} /\ Len(last.input) <= WIDTH) =>
       Returned /\ TailOnly(heap, last.val, last.input)
  /\ (last.op \in {"of", "from"} /\ Len(last.input) > WIDTH) =>
       /\ Returned
       /\ heap[last.val].size = Len(last.input)
       /\ Len(tailOf(heap, last.val)) <= WIDTH
       /\ NodeShape(heap, heap[last.val].root, heap[last.val].depth)

\* WIDTH ^ (depth + 1), the capacity of a trie of the given depth
Capacity(depth) == WIDTH ^ (depth + 1)

\* the tail of the receiver of the latest call is full
FullTail == last.recv # 0 /\ Len(tailOf(heap, last.recv)) = WIDTH

\* C22: a flush returns a Vector of depth + 1 when tailIndex = size - WIDTH
\* exceeds WIDTH ^ (depth + 1), and of the same depth otherwise.
C22_DepthGrowth ==
  (last.op = "appended" /\ FullTail) =>
    /\ Returned
    /\ heap[last.val].depth =
         IF heap[last.recv].size - WIDTH > Capacity(heap[last.recv].depth)
         THEN heap[last.recv].depth + 1
         ELSE heap[last.recv].depth

RECURSIVE HoldsArray(_, _, _, _)
HoldsArray(h, node, level, arr) ==
  /\ IsNode(h, node)
  /\ \/ h[node].array = arr
     \/ /\ level > 0
        /\ \E k \in 1..Len(arrayOf(h, node)) :
             HoldsArray(h, arrayOf(h, node)[k], level - 1, arr)

\* C26: a flush calls pushTail with level >= 1, pushTail returns, and the
\* trie of the result holds the former tail as a Node's array; so for the
\* first flush of a Vector of depth 0 with an empty root.
C26_PushTailLevel ==
  (last.op = "appended" /\ FullTail) =>
    /\ flushDepth(heap, last.recv) >= 1
    /\ Returned
    /\ HoldsArray(heap, heap[last.val].root, heap[last.val].depth, heap[last.recv].tail)

\* C29: updated returns a Vector of the size, the depth and the tail length
\* of its receiver, for every index, in range or not.
C29_UpdatedShape ==
  last.op = "updated" =>
    /\ Returned
    /\ heap[last.val].size = heap[last.recv].size
    /\ heap[last.val].depth = heap[last.recv].depth
    /\ Len(tailOf(heap, last.val)) = Len(tailOf(heap, last.recv))

C29_Witness ==
  /\ last.op = "updated"
  /\ Returned
  /\ InRange
  /\ last.val # last.recv
  /\ heap[last.val].size = WIDTH
  /\ Len(tailOf(heap, last.val)) = WIDTH

\* ------------------------------------------- the array-backed Vector
\* src/src/vector/Vector.ts: a Vector is its data array, here the sequence
\* of its elements; apply is the one method that throws.
A_empty == <<>>
A_of(elements) == elements
A_from(array) == array
A_size(data) == Len(data)
A_isEmpty(data) == Len(data) = 0
A_apply(data, index) ==
  IF index < 0 \/ index >= Len(data) THEN [err |-> "Error", val |-> 0]
  ELSE [err |-> "", val |-> data[index + 1]]
A_get(data, index) ==
  IF index < 0 \/ index >= Len(data) THEN None ELSE Some(data[index + 1])
A_updated(data, index, elem) ==
  IF index < 0 \/ index >= Len(data) THEN data ELSE [data EXCEPT ![index + 1] = elem]
A_appended(data, elem) == data \o <<elem>>
A_prepended(data, elem) == <<elem>> \o data
A_appendAll(data, that) == data \o that
A_map(data, f) == [k \in 1..Len(data) |-> ApplyF(f, data[k])]
A_flatMap(data, g) == ConcatG(data, g)
A_filter(data, p) == SelectP(data, p)
A_toArray(data) == data

\* what the latest call returns on the array-backed Vector that holds what
\* the receiver held
A_Outcome ==
  LET ok(x) == [err |-> "", val |-> x]
  IN CASE last.op = "empty" -> ok(A_empty)
       [] last.op = "of" -> ok(A_of(last.input))
       [] last.op = "from" -> ok(A_from(last.input))
       [] last.op = "size" -> ok(A_size(last.pre))
       [] last.op = "isEmpty" -> ok(A_isEmpty(last.pre))
       [] last.op = "apply" -> A_apply(last.pre, last.index)
       [] last.op = "get" -> ok(A_get(last.pre, last.index))
       [] last.op = "updated" -> ok(A_updated(last.pre, last.index, last.elem))
       [] last.op = "appended" -> ok(A_appended(last.pre, last.elem))
       [] last.op = "prepended" -> ok(A_prepended(last.pre, last.elem))
       [] last.op = "appendAll" -> ok(A_appendAll(last.pre, last.preThat))
       [] last.op = "map" -> ok(A_map(last.pre, last.fn))
       [] last.op = "flatMap" -> ok(A_flatMap(last.pre, last.fn))
       [] last.op = "filter" -> ok(A_filter(last.pre, last.fn))
       [] last.op = "toArray" -> ok(A_toArray(last.pre))

\* the methods that return a Vector
Producers == {"empty", "of", "from", "updated", "appended", "prepended",
              "appendAll", "map", "flatMap", "filter"}

\* C27: every call ends on the trie-based Vector as it ends on the
\* array-backed one: both throw or both return, and what they return has the
\* same size(), toArray() and get(i) for every i.
C27_Equivalence ==
  (last.op \in Producers \cup Observers) =>
    LET a == A_Outcome
    IN /\ (last.err = "") <=> (a.err = "")
       /\ (last.err = "" /\ last.op \in Producers) =>
            /\ size(heap, last.val) = A_size(a.val)
            /\ toArray(heap, last.val).val = A_toArray(a.val)
            /\ \A i \in -1..Len(a.val) : get(heap, last.val, i).val = A_get(a.val, i)
       /\ (last.err = "" /\ last.op = "toArray") => heap[last.val].elems = a.val
       /\ (last.err = "" /\ last.op \in Observers \ {"toArray"}) => last.val = a.val

\* C28 as stated: v.appendAll(empty) returns v itself and empty.appendAll(v)
\* returns v itself, for every Vector v.
C28_AppendAllIdentity ==
  last.op = "appendAll" =>
    /\ last.preThat = <<>> => Returned /\ last.val = last.recv
    /\ last.pre = <<>> => Returned /\ last.val = last.that

\* C28 amended: v.appendAll(empty) returns v itself, for every v;
\* empty.appendAll(v) returns v itself for every non-empty v, and its (empty)
\* receiver for an empty v; no Vector is built in either case.
C28_AppendAllIdentityAmended ==
  last.op = "appendAll" =>
    /\ last.preThat = <<>> => Returned /\ last.val = last.recv
    /\ (last.pre = <<>> /\ last.preThat # <<>>) => Returned /\ last.val = last.that
    /\ (last.pre = <<>> \/ last.preThat = <<>>) => last.val \in Returns

C28_Witness ==
  /\ last.op = "appendAll"
  /\ Returned
  /\ last.pre = <<>>
  /\ Len(last.preThat) = WIDTH
  /\ last.recv # last.that
  /\ last.val = last.that

\* some Vector or Node of the heap holds the array as its tail or its
\* children array
Referenced(h, array) ==
  \E o \in 1..Len(h) :
    \/ h[o].kind = "Vector" /\ h[o].tail = array
    \/ h[o].kind = "Node" /\ h[o].array = array

\* C30: the array passed to Vector.from and the array toArray returns are
\* not the tail of a Vector nor the children array of a Node, and a write
\* to either by the caller changes neither size() nor toArray() of any
\* Vector returned so far.
C30_NoAliasing ==
  [][/\ (last'.op \in {"from", "toArray"} /\ last'.err = "") =>
          ~Referenced(heap', CallerArray(last'))
     /\ last'.op = "mutate" =>
          \A i \in 1..Len(vecs) :
            /\ size(heap', vecs[i]) = size(heap, vecs[i])
            /\ toArray(heap', vecs[i]).val = toArray(heap, vecs[i]).val]_vars

C30_Witness ==
  /\ last.op = "mutate"
  /\ Len(last.input) = WIDTH
  /\ heap[last.index].elems # last.input
  /\ heap[last.val].kind = "Vector"
  /\ toArray(heap, last.val).val = last.input

====
